---- MODULE Spec2Model ----
(***************************************************************************)
(* A model of van_emde_boas.py: the class VanEmdeBoasTree, an ordered set  *)
(* of integers of a bounded universe.  A node of the tree is a record that *)
(* carries the attributes the Python object has: valueRange, min and max   *)
(* always, and summary, cluster, lsbSize, lsqrt, hsqrt and lsbMask only    *)
(* when __init__ found valueRange > 2.  Python's None is the empty tuple   *)
(* and a present value v is the tuple <<v>>, so that 0 is not a sentinel.  *)
(* An operation returns a record that carries the exception it raised, if  *)
(* any, next to its result or to the node as the raise left it.            *)
(***************************************************************************)
EXTENDS Integers, Sequences, FiniteSets, TLC

\* ------------------------------------------------------------------------
\* Bounds of the model
\* ------------------------------------------------------------------------

\* largest requested range of the specification Spec
MaxRange == 5

\* universes up to this size draw insert/delete arguments from all of
\* [0, valueRange); larger ones draw them from SampleKeys
FullUniverse == 8

\* the smallest range whose root has a summary and clusters
SmallUniverse == 4

\* index arithmetic is run on the universes 2^2 .. 2^MaxBits
MaxBits == 5

\* node sizes are followed from roots of 2^1 .. 2^MaxRootBits
MaxRootBits == 60

\* how far outside [0, valueRange) the arguments of SpecAny reach
OutBy == 1

\* largest small requested range of the specification SpecAny
MaxRangeAny == 4

\* ------------------------------------------------------------------------
\* Values
\* ------------------------------------------------------------------------

None == <<>>

Some(v) == <<v>>

\* a normal return with value v
Ok(v) == [ret |-> v, err |-> "ok"]

\* an exception e leaving the call
Raise(e) == [ret |-> None, err |-> e]

\* a mutator returning normally, leaving the node as n
Done(n) == [node |-> n, err |-> "ok"]

\* a mutator left by exception e with the node as n
Fail(n, e) == [node |-> n, err |-> e]

\* ------------------------------------------------------------------------
\* __init__
\* ------------------------------------------------------------------------

\* the least b with 2^b >= r, the exact value of ceil(log2(r))
ExactCeilLog2(r) == CHOOSE b \in 0..30 : 2^b >= r /\ (b = 0 \/ 2^(b-1) < r)

\* the ranges r < 2^31 at which the binary64 quotient log(r)/log(2) that
\* math.log(r, 2) computes is larger than the exact logarithm by enough to
\* change its ceiling: log(2^29, 2) = 29.000000000000004
LogRoundsUp == {2^29}

\* bitSize = ceil(log(valueRange, 2))
bitSize(valueRange) ==
    IF valueRange \in LogRoundsUp THEN ExactCeilLog2(valueRange) + 1
    ELSE ExactCeilLog2(valueRange)

\* the attributes only a node with valueRange > 2 has
HasAttrs(self) == self.valueRange > 2

VanEmdeBoasTree(valueRange) ==
    LET b == bitSize(valueRange)
        vr == 2^b
    IN  IF vr > 2
        THEN [valueRange |-> vr, min |-> None, max |-> None,
              summary |-> None, cluster |-> <<>>,
              lsbSize |-> b \div 2,
              lsqrt |-> 2^(b \div 2),
              hsqrt |-> 2^((b + 1) \div 2),
              lsbMask |-> 2^(b \div 2) - 1]
        ELSE [valueRange |-> vr, min |-> None, max |-> None]

\* ------------------------------------------------------------------------
\* clusterIndex, valueIndex, value
\* ------------------------------------------------------------------------

\* the split taking the high part by hsqrt where the code shifts by lsbSize
clusterIndex_ByHsqrt(self, x) == x \div self.hsqrt

\* x >> lsbSize
clusterIndex(self, x) == x \div (2^self.lsbSize)

\* x & lsbMask, lsbMask being 2^lsbSize - 1
valueIndex(self, x) == x % (self.lsbMask + 1)

\* (clusterIndex << lsbSize) + valueIndex
value(self, ci, vi) == ci * (2^self.lsbSize) + vi

\* ------------------------------------------------------------------------
\* contains
\* ------------------------------------------------------------------------

RECURSIVE contains(_, _)
contains(self, x) ==
    IF self.min = Some(x) \/ self.max = Some(x) THEN Ok(TRUE)
    ELSE IF self.min = None THEN Ok(FALSE)
    ELSE IF x < self.min[1] \/ x > self.max[1] \/ self.valueRange = 2
         THEN Ok(FALSE)
    ELSE IF ~HasAttrs(self) THEN Raise("AttributeError")
    ELSE LET i == clusterIndex(self, x)
         IN  IF i \notin DOMAIN self.cluster THEN Ok(FALSE)
             ELSE contains(self.cluster[i], valueIndex(self, x))

\* ------------------------------------------------------------------------
\* Node sizes as exponents, for universes beyond 2^31
\* ------------------------------------------------------------------------

\* the exponents k < 78 at which ceil(log(2^k, 2)) of line 13 is k + 1
LogRoundsUpBits == {29, 31, 39, 47, 51, 55, 58, 59, 62}

\* line 13 for valueRange = 2^k
bitSizeOfPower(k) == IF k \in LogRoundsUpBits THEN k + 1 ELSE k

\* lines 13-25 for valueRange = 2^asked, sizes as exponents of 2: bits for
\* valueRange, lsbSize for lsqrt, hsbSize for hsqrt
NodeOfPower(asked) ==
    LET b == bitSizeOfPower(asked)
    IN  IF b > 1
        THEN [asked |-> asked, bits |-> b,
              lsbSize |-> b \div 2, hsbSize |-> (b + 1) \div 2]
        ELSE [asked |-> asked, bits |-> b]

\* ------------------------------------------------------------------------
\* predecessor, successor
\* ------------------------------------------------------------------------

\* the fallback comparing with >= where the code has >
predecessorFallback_AtMin(self, x) ==
    Ok(IF self.min # None /\ x >= self.min[1] THEN self.min ELSE None)

\* line 86: the node's own min when x is above it
predecessorFallback(self, x) ==
    Ok(IF self.min # None /\ x > self.min[1] THEN self.min ELSE None)

\* lines 81-84: the max of the nearest cluster below, found by the summary
RECURSIVE predecessor(_, _)
predecessorBySummary(self, x, xClusterIndex) ==
    IF self.summary = None THEN predecessorFallback(self, x)
    ELSE LET p == predecessor(self.summary[1], xClusterIndex)
         IN  IF p.err # "ok" THEN p
             ELSE IF p.ret = None THEN predecessorFallback(self, x)
             ELSE IF p.ret[1] \notin DOMAIN self.cluster THEN Raise("KeyError")
             ELSE IF self.cluster[p.ret[1]].max = None THEN Raise("TypeError")
             ELSE Ok(Some(value(self, p.ret[1], self.cluster[p.ret[1]].max[1])))

predecessor(self, x) ==
    IF self.valueRange = 2
    THEN Ok(IF x = 1 /\ self.min = Some(0) THEN Some(0) ELSE None)
    ELSE IF self.max # None /\ x > self.max[1] THEN Ok(self.max)
    ELSE IF ~HasAttrs(self) THEN Raise("AttributeError")
    ELSE LET xClusterIndex == clusterIndex(self, x)
             xIndex == valueIndex(self, x)
             here == xClusterIndex \in DOMAIN self.cluster
         IN  IF here /\ self.cluster[xClusterIndex].min = None
             THEN Raise("TypeError")
             ELSE IF here /\ self.cluster[xClusterIndex].min[1] < xIndex
             THEN LET r == predecessor(self.cluster[xClusterIndex], xIndex)
                  IN  IF r.err # "ok" THEN r
                      ELSE IF r.ret = None THEN Raise("TypeError")
                      ELSE Ok(Some(value(self, xClusterIndex, r.ret[1])))
             ELSE predecessorBySummary(self, x, xClusterIndex)

\* the fallback comparing with <= where the code has <
successorFallback_AtMax(self, x) ==
    Ok(IF self.max # None /\ x <= self.max[1] THEN self.max ELSE None)

\* line 111: the node's own max when x is below it
successorFallback(self, x) ==
    Ok(IF self.max # None /\ x < self.max[1] THEN self.max ELSE None)

\* lines 106-109: the min of the nearest cluster above, found by the summary
RECURSIVE successor(_, _)
successorBySummary(self, x, xClusterIndex) ==
    IF self.summary = None THEN successorFallback(self, x)
    ELSE LET s == successor(self.summary[1], xClusterIndex)
         IN  IF s.err # "ok" THEN s
             ELSE IF s.ret = None THEN successorFallback(self, x)
             ELSE IF s.ret[1] \notin DOMAIN self.cluster THEN Raise("KeyError")
             ELSE IF self.cluster[s.ret[1]].min = None THEN Raise("TypeError")
             ELSE Ok(Some(value(self, s.ret[1], self.cluster[s.ret[1]].min[1])))

successor(self, x) ==
    IF self.valueRange = 2
    THEN Ok(IF x = 0 /\ self.max = Some(1) THEN Some(1) ELSE None)
    ELSE IF self.min # None /\ x < self.min[1] THEN Ok(self.min)
    ELSE IF ~HasAttrs(self) THEN Raise("AttributeError")
    ELSE LET xClusterIndex == clusterIndex(self, x)
             xIndex == valueIndex(self, x)
             here == xClusterIndex \in DOMAIN self.cluster
         IN  IF here /\ self.cluster[xClusterIndex].max = None
             THEN Raise("TypeError")
             ELSE IF here /\ self.cluster[xClusterIndex].max[1] > xIndex
             THEN LET r == successor(self.cluster[xClusterIndex], xIndex)
                  IN  IF r.err # "ok" THEN r
                      ELSE IF r.ret = None THEN Raise("TypeError")
                      ELSE Ok(Some(value(self, xClusterIndex, r.ret[1])))
             ELSE successorBySummary(self, x, xClusterIndex)

\* ------------------------------------------------------------------------
\* The cluster dictionary
\* ------------------------------------------------------------------------

\* self.cluster[k] = v
SetItem(d, k, v) == [i \in DOMAIN d \cup {k} |-> IF i = k THEN v ELSE d[i]]

\* del self.cluster[k]
DelItem(d, k) == [i \in DOMAIN d \ {k} |-> d[i]]

\* ------------------------------------------------------------------------
\* insert
\* ------------------------------------------------------------------------

RECURSIVE insert(_, _)

\* a first step that stores the empty cluster and leaves the summary alone
insertSummaryStep_ClusterFirst(self, xClusterIndex) ==
    Done([self EXCEPT !.cluster =
             SetItem(self.cluster, xClusterIndex, VanEmdeBoasTree(self.lsqrt))])

\* lines 146-148: the summary, made if there is none, learns the index
insertSummaryStep(self, xClusterIndex) ==
    LET s0 == IF self.summary = None THEN VanEmdeBoasTree(self.hsqrt)
              ELSE self.summary[1]
        sr == insert(s0, xClusterIndex)
    IN  [node |-> [self EXCEPT !.summary = Some(sr.node)], err |-> sr.err]

\* lines 150-153: the cluster is made, stored, and receives the value
insertClusterStep(self, xClusterIndex, xIndex) ==
    LET cr == insert(VanEmdeBoasTree(self.lsqrt), xIndex)
    IN  [node |-> [self EXCEPT !.cluster =
                      SetItem(self.cluster, xClusterIndex, cr.node)],
         err |-> cr.err]

\* lines 145-153: the summary learns the index, then the cluster is made
insertNewCluster(self, xClusterIndex, xIndex) ==
    LET sr == insertSummaryStep(self, xClusterIndex)
    IN  IF sr.err # "ok" THEN sr
        ELSE insertClusterStep(sr.node, xClusterIndex, xIndex)

\* lines 141-153: x, no longer the min or the max, goes into its cluster
insertIntoCluster(self, x) ==
    IF ~HasAttrs(self) THEN Fail(self, "AttributeError")
    ELSE LET xClusterIndex == clusterIndex(self, x)
             xIndex == valueIndex(self, x)
         IN  IF xClusterIndex \in DOMAIN self.cluster
             THEN LET r == insert(self.cluster[xClusterIndex], xIndex)
                  IN  [node |-> [self EXCEPT !.cluster[xClusterIndex] = r.node],
                       err |-> r.err]
             ELSE insertNewCluster(self, xClusterIndex, xIndex)

\* lines 125-130: a singleton grows to two elements without recursion
insertSingleton(self, x) ==
    IF x < self.min[1] THEN [self EXCEPT !.min = Some(x)]
    ELSE IF x > self.max[1] THEN [self EXCEPT !.max = Some(x)]
    ELSE self

\* the test for a present value looking at min only
insertPresent_MinOnly(self, x) == Some(x) = self.min

\* line 118: x is one of the cached bounds
insertPresent(self, x) == Some(x) = self.min \/ Some(x) = self.max

\* lines 118-133: the branch an insert call takes; all but "recurse" return
\* without a call on another node
insertBranch(self, x) ==
    IF insertPresent(self, x) THEN "present"
    ELSE IF self.min = None THEN "empty"
    ELSE IF self.min = self.max THEN "singleton"
    ELSE IF self.valueRange = 2 THEN "base"
    ELSE "recurse"

\* lines 135-139: a new min or max takes the place of the old one, which is
\* the value that goes on into a cluster
insertSwap(self, x) ==
    IF x < self.min[1]
    THEN [node |-> [self EXCEPT !.min = Some(x)], x |-> self.min[1]]
    ELSE IF x > self.max[1]
    THEN [node |-> [self EXCEPT !.max = Some(x)], x |-> self.max[1]]
    ELSE [node |-> self, x |-> x]

\* the insert without lines 125-130: a singleton pushes a value down
insert_NoSingletonBranch(self, x) ==
    IF insertPresent(self, x) THEN Done(self)
    ELSE IF self.min = None
         THEN Done([self EXCEPT !.min = Some(x), !.max = Some(x)])
    ELSE IF self.valueRange = 2 /\ self.min # self.max THEN Done(self)
    ELSE IF self.valueRange = 2 THEN Done(insertSingleton(self, x))
    ELSE insertIntoCluster(insertSwap(self, x).node, insertSwap(self, x).x)

insert(self, x) ==
    IF insertPresent(self, x) THEN Done(self)
    ELSE IF self.min = None
         THEN Done([self EXCEPT !.min = Some(x), !.max = Some(x)])
    ELSE IF self.min = self.max THEN Done(insertSingleton(self, x))
    ELSE IF self.valueRange = 2 THEN Done(self)
    ELSE insertIntoCluster(insertSwap(self, x).node, insertSwap(self, x).x)

\* insert(x) run until line 148 has returned in the call that finds no
\* cluster for its value, or to its end when no call does; at is None when
\* the insert is complete, else where it stands: the cluster keys leading
\* to the node of that call, and the key and value of lines 150-153
RECURSIVE insertUntilPause(_, _)
insertUntilPause(self, x) ==
    IF insertBranch(self, x) # "recurse" \/ ~HasAttrs(self)
    THEN [node |-> insert(self, x).node, err |-> insert(self, x).err,
          at |-> None]
    ELSE LET sw == insertSwap(self, x)
             ci == clusterIndex(self, sw.x)
             xi == valueIndex(self, sw.x)
         IN  IF ci \in DOMAIN sw.node.cluster
             THEN LET r == insertUntilPause(sw.node.cluster[ci], xi)
                  IN  [node |-> [sw.node EXCEPT !.cluster[ci] = r.node],
                       err |-> r.err,
                       at |-> IF r.at = None THEN None
                              ELSE Some([r.at[1] EXCEPT
                                           !.path = <<ci>> \o r.at[1].path])]
             ELSE LET sr == insertSummaryStep(sw.node, ci)
                  IN  [node |-> sr.node, err |-> sr.err,
                       at |-> Some([path |-> <<>>, ci |-> ci, xi |-> xi])]

\* the rest of that insert: lines 150-153 in the call it stands in; the
\* calls above it have nothing left to do after line 153
RECURSIVE insertResume(_, _, _, _)
insertResume(self, path, ci, xi) ==
    IF path = <<>> THEN insertClusterStep(self, ci, xi)
    ELSE LET r == insertResume(self.cluster[Head(path)], Tail(path), ci, xi)
         IN  [node |-> [self EXCEPT !.cluster[Head(path)] = r.node],
              err |-> r.err]

\* one insert call as the calls of a run list it: how deep below the first
\* call, on which child of its caller, whether lines 147 or 150 had just
\* made that child, the branch the call takes, and whether it makes a
\* cluster and a summary of its own
insertCall(self, x, depth, child, fresh) ==
    LET b == insertBranch(self, x)
        deep == b = "recurse" /\ HasAttrs(self)
        sw == insertSwap(self, x)
        nc == deep /\ clusterIndex(self, sw.x) \notin DOMAIN self.cluster
    IN  [depth |-> depth, child |-> child, fresh |-> fresh, branch |-> b,
         newCluster |-> nc, newSummary |-> nc /\ self.summary = None]

RECURSIVE insertTrace(_, _, _, _, _)

\* the calls of an insert that tells the summary at every visit, not only
\* when the cluster is new
insertTrace_AlwaysSummary(self, x, depth, child, fresh) ==
    LET here == insertCall(self, x, depth, child, fresh)
        sw == insertSwap(self, x)
        ci == clusterIndex(self, sw.x)
        xi == valueIndex(self, sw.x)
        s0 == IF self.summary = None THEN VanEmdeBoasTree(self.hsqrt)
              ELSE self.summary[1]
    IN  IF here.branch # "recurse" \/ ~HasAttrs(self) THEN <<here>>
        ELSE <<here>>
             \o insertTrace(s0, ci, depth + 1, "summary", self.summary = None)
             \o (IF here.newCluster
                 THEN insertTrace(VanEmdeBoasTree(self.lsqrt), xi,
                                  depth + 1, "cluster", TRUE)
                 ELSE insertTrace(self.cluster[ci], xi,
                                  depth + 1, "cluster", FALSE))

\* lines 114-153: the insert calls of one insert(x), in the order they are
\* made: the call itself, then, past line 133, the call of line 148 on the
\* summary when the cluster is new and the call of line 153 on the cluster
insertTrace(self, x, depth, child, fresh) ==
    LET here == insertCall(self, x, depth, child, fresh)
        sw == insertSwap(self, x)
        ci == clusterIndex(self, sw.x)
        xi == valueIndex(self, sw.x)
        s0 == IF self.summary = None THEN VanEmdeBoasTree(self.hsqrt)
              ELSE self.summary[1]
    IN  IF here.branch # "recurse" \/ ~HasAttrs(self) THEN <<here>>
        ELSE IF here.newCluster
        THEN <<here>>
             \o insertTrace(s0, ci, depth + 1, "summary", self.summary = None)
             \o insertTrace(VanEmdeBoasTree(self.lsqrt), xi,
                            depth + 1, "cluster", TRUE)
        ELSE <<here>>
             \o insertTrace(self.cluster[ci], xi, depth + 1, "cluster", FALSE)

\* ------------------------------------------------------------------------
\* delete
\* ------------------------------------------------------------------------

RECURSIVE delete(_, _)

\* the cleanup without line 206: the emptied cluster stays in the dictionary
deleteCleanup_KeepsCluster(self, xClusterIndex) ==
    IF self.summary = None THEN Fail(self, "AttributeError")
    ELSE LET sr == delete(self.summary[1], xClusterIndex)
             self3 == [self EXCEPT !.summary = Some(sr.node)]
         IN  IF sr.err # "ok" THEN Fail(self3, sr.err)
             ELSE IF sr.node.min = None
                  THEN Done([self3 EXCEPT !.summary = None])
             ELSE Done(self3)

\* the cleanup without lines 209-210: the emptied summary stays
deleteCleanup_KeepsSummary(self, xClusterIndex) ==
    LET self2 == [self EXCEPT !.cluster = DelItem(self.cluster, xClusterIndex)]
    IN  IF self2.summary = None THEN Fail(self2, "AttributeError")
        ELSE LET sr == delete(self2.summary[1], xClusterIndex)
             IN  [node |-> [self2 EXCEPT !.summary = Some(sr.node)],
                  err |-> sr.err]

\* lines 205-210: an emptied cluster leaves the dictionary and the summary,
\* and an emptied summary is dropped
deleteCleanup(self, xClusterIndex) ==
    LET self2 == [self EXCEPT !.cluster = DelItem(self.cluster, xClusterIndex)]
    IN  IF self2.summary = None THEN Fail(self2, "AttributeError")
        ELSE LET sr == delete(self2.summary[1], xClusterIndex)
                 self3 == [self2 EXCEPT !.summary = Some(sr.node)]
             IN  IF sr.err # "ok" THEN Fail(self3, sr.err)
                 ELSE IF sr.node.min = None
                      THEN Done([self3 EXCEPT !.summary = None])
                 ELSE Done(self3)

\* the delete that never looks whether the cluster became empty
deleteFromCluster_NoCleanup(self, xClusterIndex, xIndex) ==
    LET r == delete(self.cluster[xClusterIndex], xIndex)
    IN  [node |-> [self EXCEPT !.cluster[xClusterIndex] = r.node],
         err |-> r.err]

\* lines 203-210: xIndex leaves the cluster at xClusterIndex
deleteFromCluster(self, xClusterIndex, xIndex) ==
    LET r == delete(self.cluster[xClusterIndex], xIndex)
        self1 == [self EXCEPT !.cluster[xClusterIndex] = r.node]
    IN  IF r.err # "ok" THEN Fail(self1, r.err)
        ELSE IF r.node.min = None THEN deleteCleanup(self1, xClusterIndex)
        ELSE Done(self1)

\* the min branch reading summary.max, as the max branch does
deleteMin_FromLastCluster(self) ==
    IF self.summary = None THEN Done([self EXCEPT !.min = self.max])
    ELSE LET ci == self.summary[1].max
         IN  IF ci = None THEN Fail(self, "KeyError")
             ELSE IF ci[1] \notin DOMAIN self.cluster THEN Fail(self, "KeyError")
             ELSE LET xi == self.cluster[ci[1]].min
                  IN  IF xi = None THEN Fail(self, "TypeError")
                      ELSE deleteFromCluster(
                             [self EXCEPT !.min = Some(value(self, ci[1], xi[1]))],
                             ci[1], xi[1])

\* the min branch returning once the new min is cached, so that the value
\* stays in its cluster as well
deleteMin_LeavesCopy(self) ==
    IF self.summary = None THEN Done([self EXCEPT !.min = self.max])
    ELSE LET ci == self.summary[1].min
         IN  IF ci = None THEN Fail(self, "KeyError")
             ELSE IF ci[1] \notin DOMAIN self.cluster THEN Fail(self, "KeyError")
             ELSE LET xi == self.cluster[ci[1]].min
                  IN  IF xi = None THEN Fail(self, "TypeError")
                      ELSE Done([self EXCEPT
                                   !.min = Some(value(self, ci[1], xi[1]))])

\* lines 174-183: the min goes and the least clustered value replaces it
deleteMin(self) ==
    IF self.summary = None THEN Done([self EXCEPT !.min = self.max])
    ELSE LET ci == self.summary[1].min
         IN  IF ci = None THEN Fail(self, "KeyError")
             ELSE IF ci[1] \notin DOMAIN self.cluster THEN Fail(self, "KeyError")
             ELSE LET xi == self.cluster[ci[1]].min
                  IN  IF xi = None THEN Fail(self, "TypeError")
                      ELSE deleteFromCluster(
                             [self EXCEPT !.min = Some(value(self, ci[1], xi[1]))],
                             ci[1], xi[1])

\* lines 185-194: the max goes and the greatest clustered value replaces it
deleteMax(self) ==
    IF self.summary = None THEN Done([self EXCEPT !.max = self.min])
    ELSE LET ci == self.summary[1].max
         IN  IF ci = None THEN Fail(self, "KeyError")
             ELSE IF ci[1] \notin DOMAIN self.cluster THEN Fail(self, "KeyError")
             ELSE LET xi == self.cluster[ci[1]].max
                  IN  IF xi = None THEN Fail(self, "TypeError")
                      ELSE deleteFromCluster(
                             [self EXCEPT !.max = Some(value(self, ci[1], xi[1]))],
                             ci[1], xi[1])

\* lines 196-203: a value strictly between min and max
deleteInner(self, x) ==
    LET xClusterIndex == clusterIndex(self, x)
        xIndex == valueIndex(self, x)
    IN  IF xClusterIndex \notin DOMAIN self.cluster THEN Done(self)
        ELSE deleteFromCluster(self, xClusterIndex, xIndex)

\* the base case clearing the bound that should stay
deleteBase_WrongBound(self, x) ==
    IF x = 0 THEN [self EXCEPT !.max = Some(0)]
    ELSE [self EXCEPT !.min = Some(1)]

\* lines 167-172: the node of two values holding both
deleteBase(self, x) ==
    IF x = 0 THEN [self EXCEPT !.min = Some(1)]
    ELSE [self EXCEPT !.max = Some(0)]

\* lines 160-201: the branch a delete call takes; all but "recurse" return
\* without a call on another node
deleteBranch(self, x) ==
    IF self.min = None THEN "absent"
    ELSE IF x < self.min[1] \/ x > self.max[1] THEN "absent"
    ELSE IF self.min = self.max THEN "singleton"
    ELSE IF self.valueRange = 2 THEN "base"
    ELSE IF ~HasAttrs(self) THEN "raise"
    ELSE IF (Some(x) = self.min \/ Some(x) = self.max) /\ self.summary = None
         THEN "pair"
    ELSE IF Some(x) # self.min /\ Some(x) # self.max
            /\ clusterIndex(self, x) \notin DOMAIN self.cluster
         THEN "absent"
    ELSE "recurse"

delete(self, x) ==
    IF self.min = None THEN Done(self)
    ELSE IF x < self.min[1] \/ x > self.max[1] THEN Done(self)
    ELSE IF self.min = self.max
         THEN Done([self EXCEPT !.min = None, !.max = None])
    ELSE IF self.valueRange = 2 THEN Done(deleteBase(self, x))
    ELSE IF ~HasAttrs(self) THEN Fail(self, "AttributeError")
    ELSE IF Some(x) = self.min THEN deleteMin(self)
    ELSE IF Some(x) = self.max THEN deleteMax(self)
    ELSE deleteInner(self, x)

\* ------------------------------------------------------------------------
\* __iter__
\* ------------------------------------------------------------------------

\* the elements of a sequence
Range(q) == {q[i] : i \in DOMAIN q}

\* the generator's loop with acc yielded so far and v the value at the loop
\* test; successor being a function of the unchanged tree, a value that
\* comes a second time comes for ever and the iteration does not end
RECURSIVE iterFrom(_, _, _)
iterFrom(self, v, acc) ==
    IF v = None THEN Ok(acc)
    ELSE IF v[1] \in Range(acc) THEN [ret |-> acc, err |-> "diverges"]
    ELSE LET s == successor(self, v[1])
         IN  IF s.err # "ok" THEN [ret |-> Append(acc, v[1]), err |-> s.err]
             ELSE iterFrom(self, s.ret, Append(acc, v[1]))

\* the generator starting at the successor of min
iter_SkipsMin(self) ==
    IF self.min = None THEN Ok(<<>>)
    ELSE iterFrom(self, successor(self, self.min[1]).ret, <<>>)

\* lines 217-220
iter(self) == iterFrom(self, self.min, <<>>)

\* ------------------------------------------------------------------------
\* State: one tree and the calls a client makes on it
\* ------------------------------------------------------------------------

VARIABLES
    R,      \* the range the client constructed the tree with
    tree,   \* the root node
    S,      \* the values inserted and not since deleted, as a plain set
    op,     \* the last call
    arg,    \* its argument
    ret,    \* its return value
    err,    \* "ok" or the exception that left it
    inflight, \* None, or the insert another thread has begun: its value
              \* and where it stands
    locked, \* whether the client runs every call under one lock
    sizes   \* the nodes of the calls in progress, root first, by size

vars == <<R, tree, S, op, arg, ret, err, inflight, locked, sizes>>

\* the requested range of the enumeration example
ExampleRange == 16

\* the values of the enumeration example
SampleKeys == {3, 1, 4, 1, 5, 9, 2, 6}

\* two values of the last cluster of the range-16 tree; with them all four
\* clusters fill and the summary holds indices below its cached bounds
DeepKeys == {12, 13}

\* the arguments of insert and delete in a universe of vr values
Keys(vr) == IF vr <= FullUniverse THEN 0..(vr - 1)
            ELSE (SampleKeys \cup DeepKeys) \cap 0..(vr - 1)

\* the arguments of contains, predecessor and successor
Probes(vr) == 0..(vr - 1)

\* a requested range whose logarithm rounds up
BigRange == 2^29

\* arguments inside and around [0, vr)
AnyArgs(vr) == IF vr <= FullUniverse THEN (0 - OutBy)..(vr - 1 + OutBy)
               ELSE ((0 - OutBy)..OutBy) \cup ((vr - 1 - OutBy)..(vr - 1 + OutBy))

New(r) ==
    /\ R = r
    /\ tree = VanEmdeBoasTree(r)
    /\ S = {}
    /\ op = "new"
    /\ arg = r
    /\ ret = None
    /\ err = "ok"
    /\ inflight = None
    /\ sizes = <<>>

Init == locked = TRUE /\ \E r \in (2..MaxRange) \cup {ExampleRange} : New(r)

InitAny == locked = TRUE /\ \E r \in (1..MaxRangeAny) \cup {BigRange} : New(r)

\* a tree with clusters, used with and without the lock
InitConc == locked \in BOOLEAN /\ \E r \in {SmallUniverse, FullUniverse} : New(r)

Insert(x) ==
    /\ tree' = insert(tree, x).node
    /\ err' = insert(tree, x).err
    /\ S' = S \cup {x}
    /\ op' = "insert"
    /\ arg' = x
    /\ ret' = None
    /\ UNCHANGED <<R, inflight, locked, sizes>>

Delete(x) ==
    /\ tree' = delete(tree, x).node
    /\ err' = delete(tree, x).err
    /\ S' = S \ {x}
    /\ op' = "delete"
    /\ arg' = x
    /\ ret' = None
    /\ UNCHANGED <<R, inflight, locked, sizes>>

Contains(x) ==
    /\ ret' = contains(tree, x).ret
    /\ err' = contains(tree, x).err
    /\ op' = "contains"
    /\ arg' = x
    /\ UNCHANGED <<R, tree, S, inflight, locked, sizes>>

Predecessor(x) ==
    /\ ret' = predecessor(tree, x).ret
    /\ err' = predecessor(tree, x).err
    /\ op' = "predecessor"
    /\ arg' = x
    /\ UNCHANGED <<R, tree, S, inflight, locked, sizes>>

Successor(x) ==
    /\ ret' = successor(tree, x).ret
    /\ err' = successor(tree, x).err
    /\ op' = "successor"
    /\ arg' = x
    /\ UNCHANGED <<R, tree, S, inflight, locked, sizes>>

\* tuple(value for value in self)
Iterate ==
    /\ ret' = iter(tree).ret
    /\ err' = iter(tree).err
    /\ op' = "iter"
    /\ arg' = 0
    /\ UNCHANGED <<R, tree, S, inflight, locked, sizes>>

Next ==
    \/ \E x \in Keys(tree.valueRange) : Insert(x)
    \/ \E x \in Keys(tree.valueRange) : Delete(x)
    \/ \E x \in Probes(tree.valueRange) : Contains(x)
    \/ \E x \in Probes(tree.valueRange) : Predecessor(x)
    \/ \E x \in Probes(tree.valueRange) : Successor(x)
    \/ Iterate

Spec == Init /\ [][Next]_vars

NextAny ==
    \/ \E x \in AnyArgs(tree.valueRange) : Insert(x)
    \/ \E x \in AnyArgs(tree.valueRange) : Delete(x)
    \/ \E x \in AnyArgs(tree.valueRange) : Contains(x)
    \/ \E x \in AnyArgs(tree.valueRange) : Predecessor(x)
    \/ \E x \in AnyArgs(tree.valueRange) : Successor(x)
    \/ Iterate

SpecAny == InitAny /\ [][NextAny]_vars

\* a thread runs insert(x) to line 148 of the call that finds no cluster,
\* or to the end when there is none, and is preempted
InsertBegin(x) ==
    /\ inflight = None
    /\ tree' = insertUntilPause(tree, x).node
    /\ err' = insertUntilPause(tree, x).err
    /\ inflight' = IF insertUntilPause(tree, x).at = None THEN None
                   ELSE Some([x |-> x, at |-> insertUntilPause(tree, x).at[1]])
    /\ S' = IF insertUntilPause(tree, x).at = None THEN S \cup {x} ELSE S
    /\ op' = "insert"
    /\ arg' = x
    /\ ret' = None
    /\ UNCHANGED <<R, locked, sizes>>

\* the thread runs again and the insert returns
InsertEnd ==
    /\ inflight # None
    /\ LET at == inflight[1].at
           r == insertResume(tree, at.path, at.ci, at.xi)
       IN  tree' = r.node /\ err' = r.err
    /\ S' = S \cup {inflight[1].x}
    /\ inflight' = None
    /\ op' = "insert"
    /\ arg' = inflight[1].x
    /\ ret' = None
    /\ UNCHANGED <<R, locked, sizes>>

\* a second thread gets to make a call: always without the lock, and with
\* it only when the lock is free
MayCall == locked => inflight = None

\* one writer thread and reader threads
NextConc ==
    \/ \E x \in Keys(tree.valueRange) : InsertBegin(x)
    \/ InsertEnd
    \/ inflight = None /\ \E x \in Keys(tree.valueRange) : Delete(x)
    \/ MayCall /\ \E x \in Probes(tree.valueRange) : Contains(x)
    \/ MayCall /\ \E x \in Probes(tree.valueRange) : Predecessor(x)
    \/ MayCall /\ \E x \in Probes(tree.valueRange) : Successor(x)
    \/ MayCall /\ Iterate

SpecConc == InitConc /\ [][NextConc]_vars

\* an empty tree over 2^b values
InitBits == locked = TRUE /\ \E b \in 2..MaxBits : New(2^b)

\* x is split into its cluster key and its value there, and put together
Split(x) ==
    /\ ret' = <<clusterIndex(tree, x), valueIndex(tree, x),
                value(tree, clusterIndex(tree, x), valueIndex(tree, x))>>
    /\ op' = "split"
    /\ arg' = x
    /\ UNCHANGED <<R, tree, S, err, inflight, locked, sizes>>

\* the value of cluster key h and cluster value l is formed, and split
Join(h, l) ==
    /\ ret' = <<value(tree, h, l), clusterIndex(tree, value(tree, h, l)),
                valueIndex(tree, value(tree, h, l))>>
    /\ op' = "join"
    /\ arg' = <<h, l>>
    /\ UNCHANGED <<R, tree, S, err, inflight, locked, sizes>>

NextBits ==
    \/ \E x \in 0..(tree.valueRange - 1) : Split(x)
    \/ \E h \in 0..(tree.hsqrt - 1), l \in 0..(tree.lsqrt - 1) : Join(h, l)

SpecBits == InitBits /\ [][NextBits]_vars

\* the node a call in progress runs on
Callee == sizes[Len(sizes)].node

\* a call on the root of a tree built for 2^k values; the tree of the
\* other variables stays as built
InitSizes ==
    /\ R = 2
    /\ tree = VanEmdeBoasTree(R)
    /\ S = {}
    /\ op = "new"
    /\ arg = R
    /\ ret = None
    /\ err = "ok"
    /\ inflight = None
    /\ locked = TRUE
    /\ \E k \in 1..MaxRootBits :
          sizes = <<[kind |-> "root", node |-> NodeOfPower(k)]>>

\* lines 81, 106, 148, 207: a call on the summary, a node that line 147
\* built with VanEmdeBoasTree(self.hsqrt)
CallSummary ==
    /\ Callee.bits > 1
    /\ sizes' = Append(sizes, [kind |-> "summary",
                               node |-> NodeOfPower(Callee.hsbSize)])
    /\ UNCHANGED <<R, tree, S, op, arg, ret, err, inflight, locked>>

\* lines 61, 79, 104, 153, 203: a call on a cluster, a node that line 150
\* built with VanEmdeBoasTree(self.lsqrt)
CallCluster ==
    /\ Callee.bits > 1
    /\ sizes' = Append(sizes, [kind |-> "cluster",
                               node |-> NodeOfPower(Callee.lsbSize)])
    /\ UNCHANGED <<R, tree, S, op, arg, ret, err, inflight, locked>>

\* the call returns to its caller
Return ==
    /\ Len(sizes) > 1
    /\ sizes' = SubSeq(sizes, 1, Len(sizes) - 1)
    /\ UNCHANGED <<R, tree, S, op, arg, ret, err, inflight, locked>>

NextSizes == CallSummary \/ CallCluster \/ Return

SpecSizes == InitSizes /\ [][NextSizes]_vars

\* ------------------------------------------------------------------------
\* The set the calls describe
\* ------------------------------------------------------------------------

\* the greatest value of S below x, None when there is none
PredOf(x) ==
    LET below == {s \in S : s < x}
    IN  IF below = {} THEN None
        ELSE Some(CHOOSE m \in below : \A s \in below : s <= m)

\* the least value of S above x, None when there is none
SuccOf(x) ==
    LET above == {s \in S : s > x}
    IN  IF above = {} THEN None
        ELSE Some(CHOOSE m \in above : \A s \in above : m <= s)

\* the values of a finite set of integers in ascending order
RECURSIVE Ascending(_)
Ascending(T) ==
    IF T = {} THEN <<>>
    ELSE LET m == CHOOSE m \in T : \A t \in T : m <= t
         IN  <<m>> \o Ascending(T \ {m})

\* the set a node represents: its cached bounds and, rebuilt by value(),
\* what its clusters represent
RECURSIVE Elems(_)
Elems(n) ==
    (IF n.min = None THEN {} ELSE {n.min[1]})
    \cup (IF n.max = None THEN {} ELSE {n.max[1]})
    \cup (IF HasAttrs(n)
          THEN UNION {{value(n, h, e) : e \in Elems(n.cluster[h])} :
                         h \in DOMAIN n.cluster}
          ELSE {})

\* the tree after inserting the values of a sequence, one after the other
RECURSIVE InsertAll(_, _)
InsertAll(t, q) ==
    IF q = <<>> THEN t ELSE InsertAll(insert(t, Head(q)).node, Tail(q))

\* the tree of range r that holds T and has seen inserts only, ascending
Canon(r, T) == InsertAll(VanEmdeBoasTree(r), Ascending(T))

\* ------------------------------------------------------------------------
\* Properties
\* ------------------------------------------------------------------------

\* C1: after every insert and delete with arguments in [0, valueRange),
\* contains(y) is true for exactly the y of [0, valueRange) that are in the
\* set obtained by treating insert as add and delete as remove.
C1_ContainsIsMembership ==
    /\ \A y \in Probes(tree.valueRange) : contains(tree, y) = Ok(y \in S)
    /\ op = "contains" => (err = "ok" /\ ret = (arg \in S))

\* a contains call answered from inside a cluster, below the cached bounds
C1_Witness ==
    /\ op = "contains" /\ ret = TRUE
    /\ tree.valueRange = 8
    /\ Some(arg) # tree.min /\ Some(arg) # tree.max

C5_OutOfRangeRejected ==
    (R >= 2 /\ op \notin {"new", "iter"} /\ arg \notin 0..(tree.valueRange - 1))
        => (err = "ValueError" /\ contains(tree, arg).ret # TRUE)

\* C6: with R >= 2 and arguments in [0, valueRange), no call raises: every
\* cluster the summary points to exists, the summary exists when delete
\* needs it, and None is never compared with a number.
C6_NoCallRaises ==
    /\ err = "ok"
    /\ \A x \in Probes(tree.valueRange) :
          /\ contains(tree, x).err = "ok"
          /\ predecessor(tree, x).err = "ok"
          /\ successor(tree, x).err = "ok"
    /\ \A x \in Keys(tree.valueRange) :
          /\ insert(tree, x).err = "ok"
          /\ delete(tree, x).err = "ok"
    /\ iter(tree).err = "ok"
    /\ (op \in {"predecessor", "successor"} /\ ret = None)
          => (IF op = "predecessor" THEN PredOf(arg) ELSE SuccOf(arg)) = None

\* a delete that emptied a cluster and left a summary with other clusters
C6_Witness ==
    /\ op = "delete" /\ err = "ok"
    /\ tree.valueRange = 8
    /\ tree.summary # None
    /\ clusterIndex(tree, arg) \notin DOMAIN tree.cluster
    /\ Some(arg) # tree.min /\ Some(arg) # tree.max

\* C7: in every reachable state and for every x of [0, valueRange), a second
\* insert(x) leaves the whole node graph as the first left it, and a second
\* delete(x) leaves it as the first left it.
C7_InsertDeleteIdempotent ==
    \A x \in Keys(tree.valueRange) :
        /\ insert(insert(tree, x).node, x).node = insert(tree, x).node
        /\ delete(delete(tree, x).node, x).node = delete(tree, x).node

\* an insert of a value that was pushed down into a cluster, after which a
\* second insert of the value finds it there
C7_Witness ==
    /\ op = "insert"
    /\ tree.valueRange = 8
    /\ Some(arg) # tree.min /\ Some(arg) # tree.max
    /\ clusterIndex(tree, arg) \in DOMAIN tree.cluster
    /\ insert(tree, arg).node = tree

\* C8: once every inserted value is deleted again, min and max are None,
\* the summary is None and the cluster dictionary is empty, and contains is
\* false for every x of [0, valueRange).
C8_EmptiedTreeHasNoNodes ==
    S = {} =>
        /\ tree.min = None /\ tree.max = None
        /\ HasAttrs(tree) => (tree.summary = None /\ DOMAIN tree.cluster = {})
        /\ tree = VanEmdeBoasTree(R)
        /\ \A x \in Probes(tree.valueRange) : contains(tree, x).ret = FALSE

\* the tree of a universe with clusters after its last value was deleted
C8_Witness ==
    /\ op = "delete" /\ S = {}
    /\ tree.valueRange >= 8

\* C9: for R >= 2 valueRange is the smallest power of two that is >= R,
\* and a value of [0, valueRange) that was inserted is reported as present.
C9_SmallestPowerOfTwo ==
    R >= 2 =>
        /\ \E b \in 1..30 : tree.valueRange = 2^b
        /\ R <= tree.valueRange
        /\ tree.valueRange < 2 * R
        /\ (op = "insert" /\ arg \in 0..(tree.valueRange - 1))
              => contains(tree, arg).ret = TRUE

\* C10: a tree constructed with range 1 has valueRange 2, and every call
\* on the values 0 and 1 returns normally.
C10_RangeOneIsUsable ==
    (R = 1 /\ op # "new" /\ arg \in {0, 1})
        => (tree.valueRange = 2 /\ err = "ok")

\* C11: in a tree of range 2 the pair (min, max) is one of (None, None),
\* (0, 0), (1, 1), (0, 1) and denotes exactly the stored set; deleting 0
\* from {0, 1} leaves the singleton min = max = 1 with contains(1) true,
\* contains(0) false and predecessor(1) None, and deleting 1 from {0, 1}
\* leaves min = max = 0.
C11_BaseCaseDenotesSet ==
    R = 2 =>
        /\ <<tree.min, tree.max>> \in
              {<<None, None>>, <<Some(0), Some(0)>>,
               <<Some(1), Some(1)>>, <<Some(0), Some(1)>>}
        /\ S = {v \in {0, 1} : tree.min = Some(v) \/ tree.max = Some(v)}
        /\ S = {0, 1} =>
              LET t == delete(tree, 0).node
                  u == delete(tree, 1).node
              IN  /\ t.min = Some(1) /\ t.max = Some(1)
                  /\ contains(t, 1) = Ok(TRUE)
                  /\ contains(t, 0) = Ok(FALSE)
                  /\ predecessor(t, 1) = Ok(None)
                  /\ u.min = Some(0) /\ u.max = Some(0)
        /\ (op = "delete" /\ arg = 0 /\ S = {1})
              => (tree.min = Some(1) /\ tree.max = Some(1))
        /\ (op = "predecessor" /\ arg = 1 /\ S = {1}) => ret = None

\* predecessor(1) asked of the range-2 tree that holds 1 alone
C11_Witness ==
    /\ R = 2 /\ S = {1}
    /\ op = "predecessor" /\ arg = 1 /\ ret = None
    /\ tree.min = Some(1) /\ tree.max = Some(1)

\* min and max of one node against the set the node represents
C12_Node(n) ==
    LET E == Elems(n)
    IN  /\ (n.min = None) <=> (n.max = None)
        /\ (n.min = None) <=> (E = {})
        /\ n.min # None =>
              /\ 0 <= n.min[1] /\ n.min[1] <= n.max[1]
              /\ n.max[1] < n.valueRange
              /\ \A e \in E : n.min[1] <= e /\ e <= n.max[1]

\* C12_Node at a node, at its summary and at its clusters, all the way down
RECURSIVE C12_Below(_)
C12_Below(n) ==
    /\ C12_Node(n)
    /\ HasAttrs(n) =>
          /\ n.summary # None => C12_Below(n.summary[1])
          /\ \A h \in DOMAIN n.cluster : C12_Below(n.cluster[h])

\* C12: after every insert and delete, at the root, at every summary and
\* at every cluster, min is None iff max is None iff the node represents
\* the empty set, and otherwise 0 <= min <= max < valueRange with min the
\* least and max the greatest value the node represents.
C12_MinMaxAreExtremes ==
    /\ Elems(tree) = S
    /\ C12_Below(tree)

\* a cluster two levels down that holds two values of its own
C12_Witness ==
    /\ op \in {"insert", "delete"}
    /\ tree.valueRange = 16
    /\ \E h \in DOMAIN tree.cluster :
          /\ tree.cluster[h].min # tree.cluster[h].max
          /\ DOMAIN tree.cluster[h].cluster # {}

\* the clusters of one node against the set the node represents
C13_Node(n) ==
    LET E == Elems(n)
        rest == {e \in E : Some(e) # n.min /\ Some(e) # n.max}
    IN  /\ \A h \in DOMAIN n.cluster : \A e \in Elems(n.cluster[h]) :
              Some(value(n, h, e)) # n.min /\ Some(value(n, h, e)) # n.max
        /\ DOMAIN n.cluster = {clusterIndex(n, e) : e \in rest}
        /\ \A h \in DOMAIN n.cluster :
              /\ n.cluster[h].min # None
              /\ Elems(n.cluster[h]) =
                    {valueIndex(n, e) : e \in {r \in rest : clusterIndex(n, r) = h}}

\* C13_Node at every node that has clusters
RECURSIVE C13_Below(_)
C13_Below(n) ==
    HasAttrs(n) =>
        /\ C13_Node(n)
        /\ n.summary # None => C13_Below(n.summary[1])
        /\ \A h \in DOMAIN n.cluster : C13_Below(n.cluster[h])

\* C13: after every insert and delete, at every node with valueRange > 2,
\* neither min nor max is inside a cluster, index h has a cluster iff a
\* represented value other than min and max has high part h, that cluster
\* represents exactly the low parts of those values, and no cluster in a
\* dictionary is empty.
C13_ClustersHoldTheRest ==
    /\ Elems(tree) = S
    /\ C13_Below(tree)

\* clusters exist, yet none at the index the min falls in
C13_Witness ==
    /\ op \in {"insert", "delete"}
    /\ tree.valueRange = 8
    /\ DOMAIN tree.cluster # {}
    /\ clusterIndex(tree, tree.min[1]) \notin DOMAIN tree.cluster
    /\ clusterIndex(tree, tree.max[1]) \in DOMAIN tree.cluster

\* the summary of one node against its cluster dictionary
C14_Node(n) ==
    /\ (n.summary # None) <=> (DOMAIN n.cluster # {})
    /\ n.summary # None =>
          /\ Elems(n.summary[1]) = DOMAIN n.cluster
          /\ n.summary[1].min # None
          /\ \A i \in 0..(n.hsqrt - 1) :
                contains(n.summary[1], i) = Ok(i \in DOMAIN n.cluster)

\* C14_Node at every node that has a summary attribute
RECURSIVE C14_Below(_)
C14_Below(n) ==
    HasAttrs(n) =>
        /\ C14_Node(n)
        /\ n.summary # None => C14_Below(n.summary[1])
        /\ \A h \in DOMAIN n.cluster : C14_Below(n.cluster[h])

\* C14: after every insert and delete, at every node with valueRange > 2,
\* the summary is present iff the cluster dictionary is not empty, and a
\* present summary stores exactly the keys of the dictionary.
C14_SummaryIsClusterKeys == C14_Below(tree)

\* a delete that removed one of several clusters and kept the summary
C14_Witness ==
    /\ op = "delete"
    /\ tree.valueRange = 8
    /\ tree.summary # None
    /\ Cardinality(DOMAIN tree.cluster) >= 2
    /\ clusterIndex(tree, arg) \notin DOMAIN tree.cluster
    /\ Some(arg) # tree.min /\ Some(arg) # tree.max

\* an empty or singleton node: nothing below it, and insert and delete of
\* its one value touch min and max alone
C15_Node(n) ==
    (n.min = None \/ n.min = n.max) =>
        /\ n.summary = None /\ DOMAIN n.cluster = {}
        /\ \A x \in 0..(n.valueRange - 1) :
              /\ insertBranch(n, x) \in {"present", "empty", "singleton"}
              /\ insert(n, x).err = "ok"
              /\ [insert(n, x).node EXCEPT !.min = n.min, !.max = n.max] = n
        /\ n.min # None =>
              /\ deleteBranch(n, n.min[1]) = "singleton"
              /\ delete(n, n.min[1]) = Done([n EXCEPT !.min = None, !.max = None])

\* C15_Node at every node that has a summary attribute, and at the empty
\* node that insert makes for a new cluster or summary of it
RECURSIVE C15_Below(_)
C15_Below(n) ==
    HasAttrs(n) =>
        /\ C15_Node(n)
        /\ HasAttrs(VanEmdeBoasTree(n.lsqrt)) => C15_Node(VanEmdeBoasTree(n.lsqrt))
        /\ HasAttrs(VanEmdeBoasTree(n.hsqrt)) => C15_Node(VanEmdeBoasTree(n.hsqrt))
        /\ n.summary # None => C15_Below(n.summary[1])
        /\ \A h \in DOMAIN n.cluster : C15_Below(n.cluster[h])

\* C15: after every insert and delete, a node with valueRange > 2 that is
\* empty or has min = max has no summary and no cluster, and inserting into
\* it, or deleting the one value of a singleton, takes a branch without a
\* call on another node and changes min and max only.
C15_SingletonsHaveNoRecursiveState == C15_Below(tree)

\* a singleton cluster with attributes of its own, inside a tree of range 16
C15_Witness ==
    /\ op \in {"insert", "delete"}
    /\ tree.valueRange = 16
    /\ \E h \in DOMAIN tree.cluster :
          /\ tree.cluster[h].min = tree.cluster[h].max
          /\ tree.cluster[h].summary = None

\* C16: the node graph is a function of the stored set: every reachable
\* tree is the one that inserting its values in ascending order builds, so
\* two call sequences with the same result set end in the same state; and
\* insert(x) of a value not stored followed by delete(x) restores the state.
C16_RepresentationIsCanonical ==
    /\ tree = Canon(R, S)
    /\ \A x \in Keys(tree.valueRange) \ S :
          delete(insert(tree, x).node, x).node = tree

\* a tree that a delete produced and that three clustered values are in
C16_Witness ==
    /\ op = "delete"
    /\ tree.valueRange = 8
    /\ Cardinality(S) >= 5
    /\ tree = Canon(R, S)
    /\ arg < tree.max[1] /\ arg > tree.min[1]

\* the calls of insert(x) on one node
C17_Call(n, x) ==
    LET tr == insertTrace(n, x, 0, "root", FALSE)
        after == insert(n, x).node
        deep == {i \in DOMAIN tr : tr[i].branch = "recurse"}
    IN  /\ \A i \in DOMAIN tr : tr[i].fresh => tr[i].branch = "empty"
        /\ \A i \in DOMAIN tr : tr[i].newSummary => tr[i].newCluster
        /\ \A i, j \in deep : tr[i].depth = tr[j].depth => i = j
        /\ {tr[i].depth : i \in deep} = 0..(Cardinality(deep) - 1)
        /\ \A i, j \in DOMAIN tr :
              (tr[i].newCluster /\ tr[j].newCluster /\ tr[i].depth = tr[j].depth)
                  => i = j
        /\ HasAttrs(n) =>
              /\ Cardinality(DOMAIN after.cluster \ DOMAIN n.cluster) <= 1
              /\ DOMAIN n.cluster \subseteq DOMAIN after.cluster
              /\ tr[1].newCluster = (DOMAIN after.cluster # DOMAIN n.cluster)
              /\ tr[1].newSummary = (n.summary = None /\ after.summary # None)
              /\ n.summary # None => after.summary # None

\* C17_Call for every argument at a node, its summary and its clusters
RECURSIVE C17_Below(_)
C17_Below(n) ==
    /\ \A x \in 0..(n.valueRange - 1) : C17_Call(n, x)
    /\ HasAttrs(n) =>
          /\ n.summary # None => C17_Below(n.summary[1])
          /\ \A h \in DOMAIN n.cluster : C17_Below(n.cluster[h])

\* C17: in one insert(x) a node adds at most one key to its clusters and
\* makes a summary only when it had none; the insert on a child just made
\* takes the empty-node branch; so the calls that get past the
\* constant-time branches are one chain from the root, one per depth.
C17_InsertIsOneChain == C17_Below(tree)

\* an insert whose value went two levels down, into a cluster of a cluster,
\* in a tree whose summary has clusters of its own
C17_Witness ==
    /\ op = "insert"
    /\ tree.valueRange = 16
    /\ tree.summary # None
    /\ DOMAIN tree.summary[1].cluster # {}
    /\ clusterIndex(tree, arg) \in DOMAIN tree.cluster
    /\ LET c == tree.cluster[clusterIndex(tree, arg)]
           xi == valueIndex(tree, arg)
       IN  /\ Some(xi) # c.min /\ Some(xi) # c.max
           /\ clusterIndex(c, xi) \in DOMAIN c.cluster

\* the node reached from n by the cluster keys of path
RECURSIVE NodeAt(_, _)
NodeAt(n, path) ==
    IF path = <<>> THEN n ELSE NodeAt(n.cluster[Head(path)], Tail(path))

\* the calls that read the tree
Readers == {"contains", "predecessor", "successor", "iter"}

\* C18: an insert that finds no cluster for its value stands, between the
\* insert into the summary and the storing of the cluster, in a state
\* whose summary holds a key with no cluster; a reader fails only when it
\* runs without the lock while an insert stands there, with the KeyError
\* of the cluster lookup; under the lock every tree a reader has seen keeps
\* summary and cluster keys equal.
C18_ReadersNeedTheLock ==
    /\ inflight # None =>
          LET n == NodeAt(tree, inflight[1].at.path)
          IN  /\ n.summary # None
              /\ inflight[1].at.ci \in Elems(n.summary[1])
              /\ inflight[1].at.ci \notin DOMAIN n.cluster
    /\ (op \in Readers /\ err # "ok") =>
          ~locked /\ inflight # None /\ err = "KeyError" /\ op # "contains"
    /\ (op \in Readers /\ locked) => inflight = None /\ C14_Below(tree)

\* a successor call made while an insert stands between its two steps
\* fails the cluster lookup
C18_Witness ==
    /\ ~locked
    /\ inflight # None
    /\ op = "successor"
    /\ err = "KeyError"

\* C19: on a node over 2^b > 2 values, b even or odd, a value splits into
\* a cluster key below hsqrt and a cluster value below lsqrt from which
\* value() gives it back; lsqrt * hsqrt is the universe size, lsqrt is
\* 2^floor(b/2) and hsqrt is 2^ceil(b/2); and the split of value(h, l) is
\* h and l.
C19_SplitAndJoinAreInverse ==
    LET b == bitSize(R)
    IN  /\ tree.valueRange = 2^b
        /\ tree.lsqrt * tree.hsqrt = tree.valueRange
        /\ tree.lsqrt = 2^(b \div 2)
        /\ tree.hsqrt = 2^((b + 1) \div 2)
        /\ op = "split" =>
              /\ ret[3] = arg
              /\ ret[1] \in 0..(tree.hsqrt - 1)
              /\ ret[2] \in 0..(tree.lsqrt - 1)
        /\ op = "join" =>
              /\ arg[1] \in 0..(tree.hsqrt - 1)
              /\ arg[2] \in 0..(tree.lsqrt - 1)
              /\ ret[1] \in 0..(tree.valueRange - 1)
              /\ ret[2] = arg[1]
              /\ ret[3] = arg[2]

\* the largest value of a universe of odd bit size has been split
C19_Witness ==
    /\ op = "split"
    /\ bitSize(R) % 2 = 1
    /\ arg = tree.valueRange - 1
    /\ ret = <<tree.hsqrt - 1, tree.lsqrt - 1, arg>>

\* C20: every summary has the universe size its parent's hsqrt asks for and
\* every cluster the one its parent's lsqrt asks for, at least 2 and
\* smaller than the parent's, so every call on a child runs on a smaller
\* bit width.
C20_ChildSizesAreTheSquareRoots ==
    \A i \in 2..Len(sizes) :
        /\ sizes[i].node.bits = sizes[i].node.asked
        /\ sizes[i].node.asked =
              IF sizes[i].kind = "summary" THEN sizes[i - 1].node.hsbSize
              ELSE sizes[i - 1].node.lsbSize
        /\ sizes[i].node.bits >= 1
        /\ sizes[i].node.bits < sizes[i - 1].node.bits

====
